---- MODULE Spec2Model ----
(***************************************************************************)
(* Model of arsenal_gear.dist_funcs.ProbDistFunc                           *)
(* (src/arsenal_gear/dist_funcs/__init__.py).                              *)
(*                                                                         *)
(* One instance of ProbDistFunc (or of a subclass overriding prob and/or   *)
(* normalization) is constructed by __init__ and then called by one or     *)
(* more threads.  A call runs the three statements of __call__ one after   *)
(* the other: p = self.prob(x); p[mask] = 0; return p/self.norm.           *)
(*                                                                         *)
(* numpy arrays are objects: the model keeps a heap of buffers and the     *)
(* threads hold references into it, so that "prob returned the array it    *)
(* was given" is a state the model can be in.                              *)
(*                                                                         *)
(* float64 values are modelled as exact rationals n/d extended with the    *)
(* IEEE specials the division of __call__ can produce: +inf, -inf, nan and *)
(* the negative zero.  Rounding is not modelled.                           *)
(***************************************************************************)
EXTENDS Integers, Sequences, FiniteSets, TLC

(***************************************************************************)
(* Bounds of the model.                                                    *)
(***************************************************************************)
\* longest input array of the sequential caller
MaxLen == 2
\* longest input array of the concurrent callers
ConcLen == 1
\* number of threads sharing the instance
NumThreads == 2

Threads == 1..NumThreads
\* the thread of the sequential caller: the first one
Main == CHOOSE t \in Threads : \A u \in Threads : t <= u

(***************************************************************************)
(* float64 values.                                                         *)
(***************************************************************************)
RECURSIVE GCD(_, _)
GCD(a, b) == IF b = 0 THEN a ELSE GCD(b, a % b)

Abs(n) == IF n < 0 THEN -n ELSE n

\* the finite value n/d (d > 0), in lowest terms
Fin(n, d) == LET g == GCD(Abs(n), d) IN [k |-> "fin", n |-> n \div g, d |-> d \div g]

PosInf == [k |-> "inf", n |-> 1, d |-> 0]
NegInf == [k |-> "inf", n |-> -1, d |-> 0]
NaN == [k |-> "nan", n |-> 0, d |-> 0]
NegZero == [k |-> "nz", n |-> 0, d |-> 1]
Zero == Fin(0, 1)
One == Fin(1, 1)

IsFinite(a) == a.k \in {"fin", "nz"}

\* a == 0 as Python compares floats: -0.0 == 0 is True, nan == 0 is False
IsZero(a) == IsFinite(a) /\ a.n = 0

\* a < b and a > b as numpy compares floats: False when either side is nan
Less(a, b) ==
    IF a.k = "nan" \/ b.k = "nan" THEN FALSE
    ELSE IF a.k = "inf" THEN a.n < 0 /\ ~(b.k = "inf" /\ b.n < 0)
    ELSE IF b.k = "inf" THEN b.n > 0
    ELSE a.n * b.d < b.n * a.d

Greater(a, b) == Less(b, a)

\* a - b and a * b on finite values (the bounds of an instance are finite)
Minus(a, b) == Fin(a.n * b.d - b.n * a.d, a.d * b.d)

Times(a, b) == Fin(a.n * b.n, a.d * b.d)

\* a / b of numpy's true_divide on float64, b a finite value:
\* x/0 is +-inf, 0/0 is nan (a RuntimeWarning, not an exception),
\* 0/negative is the negative zero
true_divide(a, b) ==
    IF a.k = "nan" THEN NaN
    ELSE IF a.k = "inf" THEN
        IF b.n = 0 THEN a ELSE IF b.n < 0 THEN [a EXCEPT !.n = -a.n] ELSE a
    ELSE IF b.n = 0 THEN
        IF a.n = 0 THEN NaN ELSE IF a.n > 0 THEN PosInf ELSE NegInf
    ELSE IF a.n = 0 THEN
        IF (a.k = "nz") # (b.n < 0) THEN NegZero ELSE Zero
    ELSE IF b.n < 0 THEN Fin(-(a.n * b.d), a.d * (-b.n))
    ELSE Fin(a.n * b.d, a.d * b.n)

(***************************************************************************)
(* Inputs.                                                                 *)
(***************************************************************************)
\* values the bounds pdf_min and pdf_max are drawn from
BoundVals == {Fin(0, 1), Fin(2, 1)}

\* values of the elements of x: below, on, between and above the bounds
Vals == {Fin(0, 1), Fin(1, 1), Fin(2, 1), Fin(3, 1)}

\* values of the elements of the arrays of the concurrent callers
ConcVals == {Fin(1, 1), Fin(3, 1)}

\* the array [0.5, 1.0, 1.5, 2.5]
Example == <<Fin(1, 2), Fin(1, 1), Fin(3, 2), Fin(5, 2)>>

SeqsUpTo(S, n) == UNION {[1..m -> S] : m \in 0..n}

Inputs == SeqsUpTo(Vals, MaxLen) \cup {Example}

ConcInputs == SeqsUpTo(ConcVals, ConcLen)

\* the normalized argument of __init__; "default" is the argument left out
NormalizedArgs == {"default", "true", "false"}

\* the class of the instance: ProbDistFunc itself, a subclass whose prob
\* returns the array it was given (inheriting normalization), a subclass
\* whose prob returns the new array 2*x with the matching normalization
Classes == {"ProbDistFunc", "Ident", "Linear"}

(***************************************************************************)
(* State.                                                                  *)
(***************************************************************************)
VARIABLES
    status,      \* "none" before __init__, "ok" after it, "raised" if it raised
    cls,         \* the class of the instance
    min,         \* self.min
    max,         \* self.max
    norm,        \* self.norm
    hook_calls,  \* how many times self.normalization() has been invoked
    built,       \* the arguments and the fields as __init__ left them
    pc,          \* per thread: the statement of __call__ it is at
    heap,        \* the arrays: the caller's x and the array prob allocates
    p,           \* per thread: the array the local p of __call__ refers to
    x_in,        \* per thread: the contents of x when __call__ was entered
    out,         \* per thread: the array __call__ returned
    entry,       \* per thread: the fields of self when __call__ was entered
    last         \* per thread: the previous call on the same x, if any

vars == <<status, cls, min, max, norm, hook_calls, built, pc, heap, p, x_in, out, entry, last>>

self == <<min, max, norm>>

\* the caller's array x of thread t and the array a prob of thread t allocates
XB(t) == <<"x", t>>
PB(t) == <<"p", t>>
BufIds == {XB(t) : t \in Threads} \cup {PB(t) : t \in Threads}

NoRef == <<"none", 0>>
NoLast == [valid |-> FALSE, out |-> <<>>, self |-> <<>>]

Init ==
    /\ status = "none"
    /\ cls = "ProbDistFunc"
    /\ min = Zero
    /\ max = Zero
    /\ norm = Zero
    /\ hook_calls = 0
    /\ built = [arg |-> "default", min |-> Zero, max |-> Zero, norm |-> Zero]
    /\ pc = [t \in Threads |-> "idle"]
    /\ heap = [b \in BufIds |-> <<>>]
    /\ p = [t \in Threads |-> NoRef]
    /\ x_in = [t \in Threads |-> <<>>]
    /\ out = [t \in Threads |-> <<>>]
    /\ entry = [t \in Threads |-> <<>>]
    /\ last = [t \in Threads |-> NoLast]

(***************************************************************************)
(* The methods of the class and of the two subclasses.                     *)
(***************************************************************************)
\* mutant: the difference taken the wrong way round
normalization_swapped(pdf_min, pdf_max) == Minus(pdf_min, pdf_max)

\* ProbDistFunc.normalization: self.max - self.min
normalization(pdf_min, pdf_max) == Minus(pdf_max, pdf_min)

\* the normalization of the subclass Linear: the integral of 2*x
Linear_normalization(pdf_min, pdf_max) ==
    Minus(Times(pdf_max, pdf_max), Times(pdf_min, pdf_min))

\* self.normalization(), dispatched on the class of self
self_normalization(c, pdf_min, pdf_max) ==
    IF c = "Linear" THEN Linear_normalization(pdf_min, pdf_max)
    ELSE normalization(pdf_min, pdf_max)

\* ProbDistFunc.prob: np.ones(x.shape), a new array
prob(x) == [i \in 1..Len(x) |-> One]

\* the prob of the subclass Linear: 2*x, a new array
Linear_prob(x) == [i \in 1..Len(x) |-> Times(Fin(2, 1), x[i])]

\* the values of the array self.prob(x) returns (for Ident, x itself)
self_prob(c, x) ==
    IF c = "Linear" THEN Linear_prob(x)
    ELSE IF c = "Ident" THEN x
    ELSE prob(x)

\* mutant: the bounds themselves are masked (<= and >= for < and >)
logical_or_strict(x, lo, hi) ==
    [i \in 1..Len(x) |-> ~Greater(x[i], lo) \/ ~Less(x[i], hi)]

\* np.logical_or(x < self.min, x > self.max)
logical_or(x, lo, hi) == [i \in 1..Len(x) |-> Less(x[i], lo) \/ Greater(x[i], hi)]

\* a[mask] = 0, mask a boolean array of the shape of a
setitem(a, mask) ==
    [i \in 1..Len(a) |-> IF i <= Len(mask) /\ mask[i] THEN Zero ELSE a[i]]

\* a / n, elementwise, a new array
divide(a, n) == [i \in 1..Len(a) |-> true_divide(a[i], n)]

(***************************************************************************)
(* Construction.                                                           *)
(***************************************************************************)
\* mutant: normalized defaults to True
init_default_true(c, pdf_min, pdf_max, a) ==
    LET normalized == (a # "false")
        n == IF normalized THEN self_normalization(c, pdf_min, pdf_max) ELSE One
    IN  /\ status = "none"
        /\ status' = "ok"
        /\ cls' = c
        /\ min' = pdf_min
        /\ max' = pdf_max
        /\ norm' = n
        /\ hook_calls' = IF normalized THEN hook_calls + 1 ELSE hook_calls
        /\ built' = [arg |-> a, min |-> pdf_min, max |-> pdf_max, norm |-> n]
        /\ UNCHANGED <<pc, heap, p, x_in, out, entry, last>>

\* mutant: __init__ raises ValueError on pdf_min > pdf_max
init_validating(c, pdf_min, pdf_max, a) ==
    LET normalized == (a = "true")
        n == IF normalized THEN self_normalization(c, pdf_min, pdf_max) ELSE One
    IN  /\ status = "none"
        /\ status' = IF Greater(pdf_min, pdf_max) THEN "raised" ELSE "ok"
        /\ cls' = c
        /\ min' = pdf_min
        /\ max' = pdf_max
        /\ norm' = n
        /\ hook_calls' = IF normalized THEN hook_calls + 1 ELSE hook_calls
        /\ built' = [arg |-> a, min |-> pdf_min, max |-> pdf_max, norm |-> n]
        /\ UNCHANGED <<pc, heap, p, x_in, out, entry, last>>

\* ProbDistFunc.__init__(pdf_min, pdf_max, normalized) on a new instance of c
__init__(c, pdf_min, pdf_max, a) ==
    LET normalized == (a = "true")
        n == IF normalized THEN self_normalization(c, pdf_min, pdf_max) ELSE One
    IN  /\ status = "none"
        /\ status' = "ok"
        /\ cls' = c
        /\ min' = pdf_min
        /\ max' = pdf_max
        /\ norm' = n
        /\ hook_calls' = IF normalized THEN hook_calls + 1 ELSE hook_calls
        /\ built' = [arg |-> a, min |-> pdf_min, max |-> pdf_max, norm |-> n]
        /\ UNCHANGED <<pc, heap, p, x_in, out, entry, last>>

(***************************************************************************)
(* The callers.                                                            *)
(***************************************************************************)
\* thread t calls the instance on a new array holding input
Call(t, input) ==
    /\ status = "ok"
    /\ pc[t] \in {"idle", "done"}
    /\ pc' = [pc EXCEPT ![t] = "prob"]
    /\ heap' = [heap EXCEPT ![XB(t)] = input]
    /\ x_in' = [x_in EXCEPT ![t] = input]
    /\ out' = [out EXCEPT ![t] = <<>>]
    /\ entry' = [entry EXCEPT ![t] = self]
    /\ last' = [last EXCEPT ![t] = NoLast]
    /\ UNCHANGED <<status, cls, min, max, norm, hook_calls, built, p>>

\* thread t takes the array the call returned
Return(t) ==
    /\ pc[t] = "done"
    /\ pc' = [pc EXCEPT ![t] = "idle"]
    /\ last' = [last EXCEPT ![t] = [valid |-> TRUE, out |-> out[t], self |-> entry[t]]]
    /\ out' = [out EXCEPT ![t] = <<>>]
    /\ UNCHANGED <<status, cls, min, max, norm, hook_calls, built, heap, p, x_in, entry>>

\* thread t calls the instance a second time on the same array x
CallAgain(t) ==
    /\ pc[t] = "idle"
    /\ last[t].valid
    /\ pc' = [pc EXCEPT ![t] = "prob"]
    /\ x_in' = [x_in EXCEPT ![t] = heap[XB(t)]]
    /\ entry' = [entry EXCEPT ![t] = self]
    /\ UNCHANGED <<status, cls, min, max, norm, hook_calls, built, heap, p, out, last>>

\* the owner assigns self.min and self.max between two calls
SetBounds(pdf_min, pdf_max) ==
    /\ status = "ok"
    /\ \A t \in Threads : pc[t] = "idle"
    /\ <<pdf_min, pdf_max>> # <<min, max>>
    /\ min' = pdf_min
    /\ max' = pdf_max
    /\ last' = [t \in Threads |-> NoLast]
    /\ UNCHANGED <<status, cls, norm, hook_calls, built, pc, heap, p, x_in, out, entry>>

(***************************************************************************)
(* ProbDistFunc.__call__, one statement at a time.                         *)
(***************************************************************************)
\* mutant: prob fills one array kept for all calls instead of a new one
call_prob_shared(t) ==
    /\ pc[t] = "prob"
    /\ pc' = [pc EXCEPT ![t] = "mask"]
    /\ IF cls = "Ident"
       THEN /\ p' = [p EXCEPT ![t] = XB(t)]
            /\ UNCHANGED heap
       ELSE /\ p' = [p EXCEPT ![t] = PB(Main)]
            /\ heap' = [heap EXCEPT ![PB(Main)] = self_prob(cls, heap[XB(t)])]
    /\ UNCHANGED <<status, cls, min, max, norm, hook_calls, built, x_in, out, entry, last>>

\* p = self.prob(x)
call_prob(t) ==
    /\ pc[t] = "prob"
    /\ pc' = [pc EXCEPT ![t] = "mask"]
    /\ IF cls = "Ident"
       THEN /\ p' = [p EXCEPT ![t] = XB(t)]
            /\ UNCHANGED heap
       ELSE /\ p' = [p EXCEPT ![t] = PB(t)]
            /\ heap' = [heap EXCEPT ![PB(t)] = self_prob(cls, heap[XB(t)])]
    /\ UNCHANGED <<status, cls, min, max, norm, hook_calls, built, x_in, out, entry, last>>

\* p[np.logical_or(x < self.min, x > self.max)] = 0
call_mask(t) ==
    /\ pc[t] = "mask"
    /\ pc' = [pc EXCEPT ![t] = "div"]
    /\ heap' = [heap EXCEPT ![p[t]] = setitem(heap[p[t]], logical_or(heap[XB(t)], min, max))]
    /\ UNCHANGED <<status, cls, min, max, norm, hook_calls, built, p, x_in, out, entry, last>>

\* mutant: the division recomputes the normalization from the current bounds
call_div_live(t) ==
    /\ pc[t] = "div"
    /\ pc' = [pc EXCEPT ![t] = "done"]
    /\ out' = [out EXCEPT ![t] = divide(heap[p[t]],
                    IF built.arg = "true" THEN self_normalization(cls, min, max) ELSE One)]
    /\ p' = [p EXCEPT ![t] = NoRef]
    /\ heap' = [heap EXCEPT ![PB(t)] = <<>>]
    /\ UNCHANGED <<status, cls, min, max, norm, hook_calls, built, x_in, entry, last>>

\* mutant: a zero self.norm raises ZeroDivisionError
call_div_raising(t) ==
    /\ pc[t] = "div"
    /\ pc' = [pc EXCEPT ![t] = IF IsZero(norm) THEN "raised" ELSE "done"]
    /\ out' = [out EXCEPT ![t] = IF IsZero(norm) THEN <<>> ELSE divide(heap[p[t]], norm)]
    /\ p' = [p EXCEPT ![t] = NoRef]
    /\ heap' = [heap EXCEPT ![PB(t)] = <<>>]
    /\ UNCHANGED <<status, cls, min, max, norm, hook_calls, built, x_in, entry, last>>

\* mutant: the division is done in place (p /= self.norm)
call_div_inplace(t) ==
    /\ pc[t] = "div"
    /\ pc' = [pc EXCEPT ![t] = "done"]
    /\ out' = [out EXCEPT ![t] = divide(heap[p[t]], norm)]
    /\ p' = [p EXCEPT ![t] = NoRef]
    /\ heap' = [heap EXCEPT ![PB(t)] = <<>>,
                            ![XB(t)] = IF p[t] = XB(t) THEN divide(heap[p[t]], norm) ELSE @]
    /\ UNCHANGED <<status, cls, min, max, norm, hook_calls, built, x_in, entry, last>>

\* return p/self.norm
call_div(t) ==
    /\ pc[t] = "div"
    /\ pc' = [pc EXCEPT ![t] = "done"]
    /\ out' = [out EXCEPT ![t] = divide(heap[p[t]], norm)]
    /\ p' = [p EXCEPT ![t] = NoRef]
    /\ heap' = [heap EXCEPT ![PB(t)] = <<>>]
    /\ UNCHANGED <<status, cls, min, max, norm, hook_calls, built, x_in, entry, last>>

(***************************************************************************)
(* Specifications.                                                         *)
(***************************************************************************)
Construct == \E c \in Classes, lo \in BoundVals, hi \in BoundVals, a \in NormalizedArgs :
    __init__(c, lo, hi, a)

\* one caller: it constructs, calls, calls again, assigns the bounds
Next ==
    \/ Construct
    \/ \E input \in Inputs : Call(Main, input)
    \/ Return(Main)
    \/ CallAgain(Main)
    \/ \E lo \in BoundVals, hi \in BoundVals : SetBounds(lo, hi)
    \/ call_prob(Main)
    \/ call_mask(Main)
    \/ call_div(Main)

Spec == Init /\ [][Next]_vars

ConstructNormalized == \E c \in Classes, lo \in BoundVals, hi \in BoundVals :
    __init__(c, lo, hi, "true")

\* several threads call the one instance (built with normalized=True),
\* nobody assigns its fields
NextConc ==
    \/ ConstructNormalized
    \/ \E t \in Threads, input \in ConcInputs : Call(t, input)
    \/ \E t \in Threads : call_prob(t)
    \/ \E t \in Threads : call_mask(t)
    \/ \E t \in Threads : call_div(t)

SpecConc == Init /\ [][NextConc]_vars

TypeOK ==
    /\ status \in {"none", "ok", "raised"}
    /\ cls \in Classes
    /\ hook_calls \in 0..1
    /\ \A t \in Threads : pc[t] \in {"idle", "prob", "mask", "div", "done", "raised"}
    /\ \A t \in Threads : Len(out[t]) <= Len(x_in[t])

(***************************************************************************)
(* Properties.                                                             *)
(***************************************************************************)
Done(t) == pc[t] = "done"

\* nobody has assigned the bounds since __init__
AsBuilt == min = built.min /\ max = built.max

Outside(v) == Less(v, min) \/ Greater(v, max)

\* what one call on x returns when nothing else runs
Alone(x, n) == divide(setitem(self_prob(cls, x), logical_or(x, min, max)), n)

\* C1: every element of x below self.min or above self.max has the value 0
\* in the array the call returns, whatever prob and self.norm are.
C1_OutsideIsZero ==
    \A t \in Threads : Done(t) =>
        \A i \in 1..Len(x_in[t]) :
            Outside(x_in[t][i]) => i <= Len(out[t]) /\ IsZero(out[t][i])

\* C2: with self.min <= self.max, an element of x equal to self.min or to
\* self.max is not masked: the call returns prob(x)[i] / self.norm for it.
C2_BoundsInclusive ==
    \A t \in Threads : Done(t) /\ ~Greater(min, max) =>
        /\ Len(out[t]) = Len(x_in[t])
        /\ \A i \in 1..Len(x_in[t]) :
            x_in[t][i] \in {min, max} =>
                out[t][i] = true_divide(self_prob(cls, x_in[t])[i], norm)

C2_Witness ==
    \E t \in Threads : Done(t) /\ Less(min, max) /\ Len(x_in[t]) = 2
        /\ x_in[t][1] = min /\ x_in[t][2] = max
        /\ ~IsZero(out[t][1]) /\ ~IsZero(out[t][2])

ExampleNormalized == <<Fin(1, 2), Fin(1, 2), Fin(1, 2), Zero>>

\* C3: ProbDistFunc itself built with normalized=True and pdf_min < pdf_max
\* stores self.norm = pdf_max - pdf_min, and a call returns 1/(pdf_max -
\* pdf_min) for the elements inside the bounds and 0 for those outside;
\* with bounds 0 and 2, [0.5, 1.0, 1.5, 2.5] gives [0.5, 0.5, 0.5, 0.0].
C3_UniformNormalized ==
    status = "ok" /\ cls = "ProbDistFunc" /\ built.arg = "true"
        /\ Less(built.min, built.max) =>
        /\ norm = Minus(built.max, built.min)
        /\ \A t \in Threads : Done(t) /\ AsBuilt =>
            /\ Len(out[t]) = Len(x_in[t])
            /\ \A i \in 1..Len(x_in[t]) :
                out[t][i] = IF Outside(x_in[t][i]) THEN Zero
                            ELSE true_divide(One, Minus(max, min))
            /\ (x_in[t] = Example /\ min = Fin(0, 1) /\ max = Fin(2, 1)
                    => out[t] = ExampleNormalized)

C3_Witness ==
    \E t \in Threads : Done(t) /\ AsBuilt /\ cls = "ProbDistFunc" /\ built.arg = "true"
        /\ min = Fin(0, 1) /\ max = Fin(2, 1)
        /\ x_in[t] = Example /\ out[t] = ExampleNormalized

ExampleRaw == <<One, One, One, Zero>>

\* C4: built with normalized=False or with normalized left out, the
\* instance never invoked normalization() and holds self.norm = 1; a call
\* returns prob(x)[i] for the elements inside the bounds and 0 for those
\* outside; ProbDistFunc itself with bounds 0 and 2 gives [1, 1, 1, 0] for
\* [0.5, 1.0, 1.5, 2.5].
C4_Unnormalized ==
    status = "ok" /\ built.arg # "true" =>
        /\ hook_calls = 0
        /\ norm = One
        /\ \A t \in Threads : Done(t) =>
            /\ Len(out[t]) = Len(x_in[t])
            /\ \A i \in 1..Len(x_in[t]) :
                out[t][i] = IF Outside(x_in[t][i]) THEN Zero
                            ELSE self_prob(cls, x_in[t])[i]
            /\ (cls = "ProbDistFunc" /\ x_in[t] = Example
                    /\ min = Fin(0, 1) /\ max = Fin(2, 1) => out[t] = ExampleRaw)

C4_Witness ==
    \E t \in Threads : Done(t) /\ built.arg = "default" /\ cls = "ProbDistFunc"
        /\ min = Fin(0, 1) /\ max = Fin(2, 1)
        /\ x_in[t] = Example /\ out[t] = ExampleRaw

\* C5: normalization() is invoked at most once, by __init__; after any calls
\* and any assignments to the bounds self.norm is still the value __init__
\* stored, and a call divides by that value, not by one recomputed from the
\* current bounds.
C5_NormIsCached ==
    status = "ok" =>
        /\ hook_calls = (IF built.arg = "true" THEN 1 ELSE 0)
        /\ norm = built.norm
        /\ \A t \in Threads : Done(t) => out[t] = Alone(x_in[t], built.norm)

C5_Witness ==
    \E t \in Threads : Done(t) /\ ~AsBuilt /\ built.arg = "true"
        /\ self_normalization(cls, min, max) # norm
        /\ last[t].valid
        /\ \E i \in 1..Len(out[t]) : IsFinite(out[t][i]) /\ ~IsZero(out[t][i])

\* C6: a second call on the same array returns the same values as the
\* first, and the fields of the instance after the second call are those
\* from before the first.
C6_Idempotent ==
    \A t \in Threads : Done(t) /\ last[t].valid =>
        out[t] = last[t].out /\ self = last[t].self

C6_Witness ==
    \E t \in Threads : Done(t) /\ last[t].valid /\ cls = "Ident" /\ norm # One
        /\ \E i \in 1..Len(out[t]) : IsFinite(out[t][i]) /\ ~IsZero(out[t][i])

\* C7: __init__ raises for no pair of bounds and neither value of
\* normalized; an instance built with pdf_min > pdf_max returns 0 for every
\* element of every array, without raising.
C7_NoValidation ==
    /\ status # "raised"
    /\ status = "none" =>
        \A c \in Classes, lo \in BoundVals, hi \in BoundVals, a \in NormalizedArgs :
            ENABLED __init__(c, lo, hi, a)
    /\ \A t \in Threads :
        /\ pc[t] # "raised"
        /\ Done(t) /\ AsBuilt /\ Greater(min, max) =>
            /\ Len(out[t]) = Len(x_in[t])
            /\ \A i \in 1..Len(out[t]) : IsZero(out[t][i])

C7_Witness ==
    \E t \in Threads : Done(t) /\ AsBuilt /\ Greater(min, max) /\ built.arg = "true"
        /\ Len(out[t]) = 2 /\ out[t][1] = NegZero /\ x_in[t][1] = Fin(1, 1)

C9_ConcurrentCalls ==
    status = "ok" =>
        /\ self = <<built.min, built.max, built.norm>>
        /\ \A t \in Threads : Done(t) => out[t] = Alone(x_in[t], norm)

C9_Witness ==
    \E t \in Threads, u \in Threads :
        /\ t # u /\ Done(t) /\ pc[u] = "div"
        /\ x_in[t] # x_in[u] /\ Len(out[t]) = 1 /\ Len(x_in[u]) = 1
        /\ Outside(x_in[u][1]) /\ ~IsZero(out[t][1])

\* C10: the caller's array x holds after the call the values it held before
\* it, also when prob returns the array it was given.
C10_InputUntouched ==
    \A t \in Threads : pc[t] \in {"mask", "div", "done"} => heap[XB(t)] = x_in[t]

====
